---- MODULE Spec2Model ----
(***************************************************************************)
(* Model of the ledger and persistence logic of src/expensetracker.py:     *)
(* the Expense record with its to_dict / from_dict conversions and the     *)
(* ExpenseTracker operations add_expense, view_expenses, monthly_summary,  *)
(* save_expenses and load_expenses, together with the backing file.        *)
(*                                                                         *)
(* Text (str) is the sequence of its characters' code points, so that      *)
(* strftime, strptime and float() are modelled by what they do to the      *)
(* characters, those beyond ASCII included.                                *)
(* A Python float is an IEEE 754 binary64 value, held exactly as a sign, an *)
(* odd mantissa and a binary exponent, or an infinity or NaN; float(text)  *)
(* and float addition round to nearest, ties to even, as the C library     *)
(* does.                                                                   *)
(***************************************************************************)
EXTENDS Integers, Sequences, FiniteSets, TLC

VARIABLES file, alive, expenses, held, ret, saveFailures, callerChanges

vars == <<file, alive, expenses, held, ret, saveFailures, callerChanges>>

(***************************************************************************)
(* Bounds of the model.                                                    *)
(***************************************************************************)
\* the longest ledger the model lets add_expense build under Spec and SpecAdd
MaxLen == 2

\* the longest ledger the model lets add_expense build under SpecView and
\* SpecSummary
QMaxLen == 3

\* the most saves the environment lets fail in one run
MaxSaveFailures == 1

\* the most changes the caller makes to a list it was handed
MaxCallerChanges == 1

(***************************************************************************)
(* Characters and text.  A character is its code point, ord(c), so that a  *)
(* text can hold any character of a Python str.                            *)
(***************************************************************************)
\* the characters from the space to the underscore, code points 32 to 95
PrintableLow ==
  <<
    " ", "!", "\"", "#", "$", "%", "&", "'", "(", ")", "*", "+",
    ",", "-", ".", "/", "0", "1", "2", "3", "4", "5", "6", "7",
    "8", "9", ":", ";", "<", "=", ">", "?", "@", "A", "B", "C",
    "D", "E", "F", "G", "H", "I", "J", "K", "L", "M", "N", "O",
    "P", "Q", "R", "S", "T", "U", "V", "W", "X", "Y", "Z", "[",
    "\\", "]", "^", "_"
  >>

\* the characters from a to the tilde, code points 97 to 126
PrintableHigh ==
  <<
    "a", "b", "c", "d", "e", "f", "g", "h", "i", "j", "k", "l",
    "m", "n", "o", "p", "q", "r", "s", "t", "u", "v", "w", "x",
    "y", "z", "{", "|", "}", "~"
  >>

\* the place of c in s
IndexOf(s, c) == CHOOSE i \in 1..Len(s) : s[i] = c

\* ord(c) of a character written as a string of one character
Ord(c) ==
  CASE c = "\t" -> 9 [] c = "\n" -> 10 [] c = "\f" -> 12 [] c = "\r" -> 13
    [] (\E i \in 1..Len(PrintableHigh) : PrintableHigh[i] = c)
         -> 96 + IndexOf(PrintableHigh, c)
    [] OTHER -> 31 + IndexOf(PrintableLow, c)

\* a text written character by character
Text(s) == [i \in 1..Len(s) |-> Ord(s[i])]

\* [0-9] of a regular expression: the ASCII digits
DigitChars == 48..57

\* the digit zero of every script: the decimal digits of Unicode (category
\* Nd, Unicode 14 in Python 3.11) are the ten characters from each of these
DigitZeros ==
  {
   48, 1632, 1776, 1984, 2406, 2534, 2662, 2790, 2918,
   3046, 3174, 3302, 3430, 3558, 3664, 3792, 3872, 4160,
   4240, 6112, 6160, 6470, 6608, 6784, 6800, 6992, 7088,
   7232, 7248, 42528, 43216, 43264, 43472, 43504, 43600, 44016,
   65296, 66720, 68912, 69734, 69872, 69942, 70096, 70384, 70736,
   70864, 71248, 71360, 71472, 71904, 72016, 72784, 73040, 73120,
   92768, 92864, 93008, 120782, 120792, 120802, 120812, 120822, 123200,
   123632, 125264, 130032
  }

\* \d of a str pattern, and the digits int() and float() take: a decimal
\* digit of any script
IsDigit(c) == \E z \in DigitZeros : z <= c /\ c <= z + 9

DigitVal(c) == c - (CHOOSE z \in DigitZeros : z <= c /\ c <= z + 9)

\* the ASCII digit of n
DigitChar(n) == 48 + n

\* the value of a run of decimal digits
RECURSIVE DigitsVal(_)
DigitsVal(s) ==
  IF s = << >> THEN 0
  ELSE 10 * DigitsVal(SubSeq(s, 1, Len(s) - 1)) + DigitVal(s[Len(s)])

\* a natural number in decimal, no padding
RECURSIVE NatToText(_)
NatToText(n) ==
  IF n < 10 THEN << DigitChar(n) >>
  ELSE Append(NatToText(n \div 10), DigitChar(n % 10))

\* %m and %d of strftime: two digits, zero padded
Pad2(n) == << DigitChar(n \div 10), DigitChar(n % 10) >>

(***************************************************************************)
(* The texts the model's arguments and files are written with.             *)
(***************************************************************************)
Text_2024_03_05 == Text(<<"2", "0", "2", "4", "-", "0", "3", "-", "0", "5">>)

Text_2024_3_5 == Text(<<"2", "0", "2", "4", "-", "3", "-", "5">>)

Text_0999_01_01 == Text(<<"0", "9", "9", "9", "-", "0", "1", "-", "0", "1">>)

Text_2023_02_29 == Text(<<"2", "0", "2", "3", "-", "0", "2", "-", "2", "9">>)

\* 2024-03-05 with the year in fullwidth digits, U+FF10 to U+FF19
Text_Fullwidth_2024_03_05 ==
  <<65298, 65296, 65298, 65300>> \o Text(<<"-", "0", "3", "-", "0", "5">>)

DateTexts ==
  {Text_2024_03_05, Text_2024_3_5, Text_0999_01_01, Text_2023_02_29,
   Text(<<"9", "9", "9", "-", "0", "1", "-", "0", "1">>),
   Text_Fullwidth_2024_03_05}

(***************************************************************************)
(* datetime.date, strftime("%Y-%m-%d") and strptime(text, "%Y-%m-%d").     *)
(***************************************************************************)
Date(y, m, d) == [y |-> y, m |-> m, d |-> d]

IsLeap(y) == (y % 4 = 0) /\ ((y % 100 # 0) \/ (y % 400 = 0))

DaysInMonth(y, m) ==
  IF m = 2 THEN (IF IsLeap(y) THEN 29 ELSE 28)
  ELSE IF m \in {4, 6, 9, 11} THEN 30 ELSE 31

\* date.strftime("%Y-%m-%d") as Expense.to_dict calls it.  %Y is the C
\* library's: glibc writes the year without padding, so a year below 1000
\* has fewer than four digits.
Strftime(dt) ==
  NatToText(dt.y) \o <<Ord("-")>> \o Pad2(dt.m) \o <<Ord("-")>> \o Pad2(dt.d)

\* [1-9] of a regular expression
NonZeroDigits == 49..57

\* the %m directive of strptime: 1[0-2]|0[1-9]|[1-9]
MonthMatch(s) ==
  \/ Len(s) = 2 /\ s[1] = Ord("1") /\ s[2] \in {Ord("0"), Ord("1"), Ord("2")}
  \/ Len(s) = 2 /\ s[1] = Ord("0") /\ s[2] \in NonZeroDigits
  \/ Len(s) = 1 /\ s[1] \in NonZeroDigits

\* the %d directive of strptime: 3[0-1]|[1-2]\d|0[1-9]|[1-9]| [1-9]
DayMatch(s) ==
  \/ Len(s) = 2 /\ s[1] = Ord("3") /\ s[2] \in {Ord("0"), Ord("1")}
  \/ Len(s) = 2 /\ s[1] \in {Ord("1"), Ord("2")} /\ IsDigit(s[2])
  \/ Len(s) = 2 /\ s[1] \in {Ord("0"), Ord(" ")} /\ s[2] \in NonZeroDigits
  \/ Len(s) = 1 /\ s[1] \in NonZeroDigits

\* the text is YYYY-m-d with a month of ml and a day of dl characters, and
\* nothing left over; %Y is \d\d\d\d
StrptimeShape(t, ml, dl) ==
  /\ Len(t) = 6 + ml + dl
  /\ \A i \in 1..4 : IsDigit(t[i])
  /\ MonthMatch(SubSeq(t, 6, 5 + ml))
  /\ DayMatch(SubSeq(t, 7 + ml, 6 + ml + dl))
  /\ \A i \in {5, 6 + ml} : t[i] = Ord("-")

NoDate == Date(0, 0, 0)

\* the date of the numbers found: the ValueError for the year 0 and for a
\* day the month does not have
DateOf(y, m, d) ==
  IF y >= 1 /\ d <= DaysInMonth(y, m)
  THEN [ok |-> TRUE, date |-> Date(y, m, d)]
  ELSE [ok |-> FALSE, date |-> NoDate]

\* the date of a text that matched with a month of one of mls characters;
\* the day text may start with a space
ParseMatched(t, mls) ==
  IF mls = {} THEN [ok |-> FALSE, date |-> NoDate]
  ELSE DateOf(DigitsVal(SubSeq(t, 1, 4)),
              DigitsVal(SubSeq(t, 6, 5 + CHOOSE ml \in mls : TRUE)),
              DigitsVal(SelectSeq(SubSeq(t, 7 + (CHOOSE ml \in mls : TRUE), Len(t)),
                                  IsDigit)))

\* datetime.datetime.strptime(t, "%Y-%m-%d").date(): [ok, date]; ok = FALSE
\* is the ValueError (no match, unconverted data, year 0, day out of range)
ParseDate(t) ==
  ParseMatched(t, {ml \in 1..2 : \E dl \in 1..2 : StrptimeShape(t, ml, dl)})

\* ParseDate of the model's texts, computed once
ParsedDates == [t \in DateTexts |-> ParseDate(t)]

\* strptime as the code calls it (lines 26 and 49)
Strptime(t) == IF t \in DateTexts THEN ParsedDates[t] ELSE ParseDate(t)

(***************************************************************************)
(* Natural numbers of any size, for the exact arithmetic behind a binary64 *)
(* float: a sequence of limbs below LimbBase, least significant first,     *)
(* with no zero limb at the top (<< >> is 0).  Carries are resolved by     *)
(* look-ahead, so that no operator recurses over the length of a number.   *)
(* This is the arithmetic the runtime does in C and in hardware; the       *)
(* source has no lines of its own for it.                                  *)
(***************************************************************************)
LimbBits == 15

LimbBase == 32768

\* 2^n for 0 <= n < LimbBits
RECURSIVE Pow2(_)
Pow2(n) == IF n = 0 THEN 1 ELSE 2 * Pow2(n - 1)

\* the number of binary digits of a limb
RECURSIVE BitLen(_)
BitLen(n) == IF n = 0 THEN 0 ELSE 1 + BitLen(n \div 2)

\* the number of zero binary digits at the low end of a limb n # 0
RECURSIVE TrailingZeros(_)
TrailingZeros(n) == IF n % 2 = 1 THEN 0 ELSE 1 + TrailingZeros(n \div 2)

Limb(a, i) == IF i >= 1 /\ i <= Len(a) THEN a[i] ELSE 0

\* a without the zero limbs at its top
BigNorm(a) ==
  LET used == {i \in 1..Len(a) : a[i] # 0}
  IN IF used = {} THEN << >>
     ELSE SubSeq(a, 1, CHOOSE i \in used : \A j \in used : j <= i)

\* a natural number below 2^31
BigFromNat(n) ==
  BigNorm(<<n % LimbBase, (n \div LimbBase) % LimbBase, n \div (LimbBase * LimbBase)>>)

\* the number whose limbs are the sums s, each below 2 * LimbBase: a limb
\* takes a carry when a limb below it overflows and every limb between the
\* two is full
Carried(s) ==
  LET c(i) == IF \E j \in 1..(i - 1) :
                   s[j] >= LimbBase /\ \A h \in (j + 1)..(i - 1) : s[h] = LimbBase - 1
              THEN 1 ELSE 0
  IN BigNorm([i \in 1..Len(s) |-> (s[i] + c(i)) % LimbBase])

BigAdd(a, b) ==
  Carried([i \in 1..((IF Len(a) > Len(b) THEN Len(a) ELSE Len(b)) + 1) |->
             Limb(a, i) + Limb(b, i)])

\* a - b for a >= b: a limb gives a borrow when a limb below it falls short
\* and every limb between the two is level
BigSub(a, b) ==
  LET d(i) == a[i] - Limb(b, i)
      c(i) == IF \E j \in 1..(i - 1) : d(j) < 0 /\ \A h \in (j + 1)..(i - 1) : d(h) = 0
              THEN 1 ELSE 0
  IN BigNorm([i \in 1..Len(a) |-> (d(i) - c(i) + LimbBase) % LimbBase])

\* -1, 0 or 1 as a < b, a = b or a > b
BigCmp(a, b) ==
  IF Len(a) < Len(b) THEN 0 - 1
  ELSE IF Len(a) > Len(b) THEN 1
  ELSE IF a = b THEN 0
  ELSE LET i == CHOOSE j \in 1..Len(a) :
                  a[j] # b[j] /\ \A h \in (j + 1)..Len(a) : a[h] = b[h]
       IN IF a[i] < b[i] THEN 0 - 1 ELSE 1

\* a * k + c for k, c < LimbBase: each limb takes the low part of its own
\* product and the high part of the product below it
BigMulSmall(a, k, c) ==
  Carried([i \in 1..(Len(a) + 1) |->
             ((Limb(a, i) * k) % LimbBase) + ((Limb(a, i - 1) * k) \div LimbBase)
               + (IF i = 1 THEN c ELSE 0)])

\* a * LimbBase^n
BigShlLimbs(a, n) == IF a = << >> THEN a ELSE [i \in 1..n |-> 0] \o a

\* a * 2^n
BigShl(a, n) == BigShlLimbs(BigMulSmall(a, Pow2(n % LimbBits), 0), n \div LimbBits)

\* a \div p for p = 2^r, r < LimbBits
BigDivPow2(a, p) ==
  BigNorm([i \in 1..Len(a) |->
             (a[i] \div p) + ((Limb(a, i + 1) % p) * (LimbBase \div p))])

\* a \div 2^n
BigShr(a, n) ==
  IF n \div LimbBits >= Len(a) THEN << >>
  ELSE BigDivPow2(SubSeq(a, n \div LimbBits + 1, Len(a)), Pow2(n % LimbBits))

\* a % 2^n
BigLow(a, n) ==
  IF n \div LimbBits >= Len(a) THEN a
  ELSE BigNorm(SubSeq(a, 1, n \div LimbBits)
               \o <<a[n \div LimbBits + 1] % Pow2(n % LimbBits)>>)

\* the number of binary digits of a
BigBitLen(a) ==
  IF a = << >> THEN 0 ELSE LimbBits * (Len(a) - 1) + BitLen(a[Len(a)])

\* the binary digit of weight 2^i
BigBit(a, i) == (Limb(a, i \div LimbBits + 1) \div Pow2(i % LimbBits)) % 2

BigIsOdd(a) == a # << >> /\ a[1] % 2 = 1

\* the number of zero binary digits at the low end of a # 0
BigTrailingZeros(a) ==
  LET i == CHOOSE j \in 1..Len(a) : a[j] # 0 /\ \A h \in 1..(j - 1) : a[h] = 0
  IN LimbBits * (i - 1) + TrailingZeros(a[i])

\* the sum of a[i] * LimbBase^(i - 1) * b over the limbs lo..hi of a
RECURSIVE BigMulRange(_, _, _, _)
BigMulRange(a, b, lo, hi) ==
  IF lo > hi THEN << >>
  ELSE IF lo = hi THEN BigShlLimbs(BigMulSmall(b, a[lo], 0), lo - 1)
  ELSE BigAdd(BigMulRange(a, b, lo, (lo + hi) \div 2),
              BigMulRange(a, b, (lo + hi) \div 2 + 1, hi))

BigMul(a, b) == IF a = << >> \/ b = << >> THEN << >> ELSE BigMulRange(a, b, 1, Len(a))

\* h * h, and ten times that when odd
BigSquare(h, odd) == BigMulSmall(BigMul(h, h), IF odd THEN 10 ELSE 1, 0)

\* 10^n, by squaring
RECURSIVE BigPow10(_)
BigPow10(n) == IF n = 0 THEN <<1>> ELSE BigSquare(BigPow10(n \div 2), n % 2 = 1)

\* one step of long division in binary: q and r are the quotient and the
\* remainder of the digits of n taken in so far, r2 is r with the next digit
\* of n appended
BigDivTake(t, q, r2) ==
  IF BigCmp(r2, t) >= 0
  THEN [q |-> BigMulSmall(q, 2, 1), r |-> BigSub(r2, t)]
  ELSE [q |-> BigMulSmall(q, 2, 0), r |-> r2]

\* the step that takes in digit i of n, from st = [q, r]
BigDivStep(n, t, i, st) == BigDivTake(t, st.q, BigMulSmall(st.r, 2, BigBit(n, i)))

\* the steps for the digits hi down to lo of n, the upper half first, and
\* then from its result up the digits mid - 1 down to lo: once the remainder
\* is 0 and the digits still to come are all 0, every further step only
\* doubles the quotient
RECURSIVE BigDivBits(_, _, _, _, _)
BigDivLower(n, t, mid, lo, up) ==
  IF up.r = << >> /\ BigLow(n, mid) = << >>
  THEN [q |-> BigShl(up.q, mid - lo), r |-> << >>]
  ELSE BigDivBits(n, t, mid - 1, lo, up)

BigDivBits(n, t, hi, lo, st) ==
  IF hi < lo THEN st
  ELSE IF hi = lo THEN BigDivStep(n, t, hi, st)
  ELSE BigDivLower(n, t, (hi + lo + 1) \div 2, lo,
                   BigDivBits(n, t, hi, (hi + lo + 1) \div 2, st))

\* the division that starts with the digits of n from digit low upwards
\* as the remainder and takes in those below
BigDivFrom(n, t, low) ==
  BigDivBits(n, t, low - 1, 0, [q |-> << >>, r |-> BigShr(n, low)])

\* [q, r] with n = q * t + r and r < t, for t # 0: the top digits of n that
\* are fewer than those of t start as the remainder
BigDivMod(n, t) ==
  BigDivFrom(n, t, IF BigBitLen(n) >= BigBitLen(t)
                   THEN BigBitLen(n) - BigBitLen(t) + 1 ELSE 0)

(***************************************************************************)
(* Python floats (IEEE 754 binary64).  A finite float is                   *)
(* [k |-> "num", neg, m, e]: the value (-1)^neg * m * 2^e with m an odd    *)
(* natural number below 2^53 and e >= -1074, or m = 0 and e = 0 (neg then  *)
(* tells -0.0 from 0.0); k = "inf" is the infinity of sign neg and         *)
(* k = "nan" is NaN.                                                       *)
(***************************************************************************)
MantBits == 53

MinExp == 0 - 1074

MaxBits == 1024

Max(a, b) == IF a > b THEN a ELSE b

Min(a, b) == IF a < b THEN a ELSE b

NaN == [k |-> "nan", neg |-> FALSE, m |-> << >>, e |-> 0]

Inf(neg) == [k |-> "inf", neg |-> neg, m |-> << >>, e |-> 0]

FZero(neg) == [k |-> "num", neg |-> neg, m |-> << >>, e |-> 0]

Zero == FZero(FALSE)

\* the float of value m * 2^e, for m of at most 53 binary digits and
\* e >= -1074: infinity when the value is 2^1024 or more
Finite(neg, m, e) ==
  IF m = << >> THEN FZero(neg)
  ELSE IF BigBitLen(m) + e > MaxBits THEN Inf(neg)
  ELSE [k |-> "num", neg |-> neg, m |-> BigShr(m, BigTrailingZeros(m)),
        e |-> e + BigTrailingZeros(m)]

\* whether a value rounds up: c compares what is cut off with half a unit
\* of the last place kept, and a tie (with nothing more below it) goes to
\* the even mantissa
RoundsUp(c, sticky, odd) == c > 0 \/ (c = 0 /\ (sticky \/ odd))

\* down * 2^q, or the float next above it
RoundPick(neg, down, up, q) ==
  Finite(neg, IF up THEN BigAdd(down, <<1>>) ELSE down, q)

\* n * 2^e rounded to a multiple of 2^q
RoundAt(neg, n, e, sticky, q) ==
  IF q <= e THEN Finite(neg, n, e)
  ELSE RoundPick(neg, BigShr(n, q - e),
                 RoundsUp(BigCmp(BigLow(n, q - e), BigShl(<<1>>, q - e - 1)),
                          sticky, BigBit(n, q - e) = 1),
                 q)

\* the float nearest to n * 2^e, a tie going to the even mantissa; sticky
\* says that the exact value lies above n * 2^e by less than 2^e
RoundToDouble(neg, n, e, sticky) ==
  RoundAt(neg, n, e, sticky, Max(e + BigBitLen(n) - MantBits, MinExp))

\* the float of an integer of small size
Num(n) == RoundToDouble(n < 0, BigFromNat(IF n < 0 THEN 0 - n ELSE n), 0, FALSE)

\* x * 2^e of sign an plus y * 2^e of sign bn; c compares x with y
FAddAligned(an, x, bn, y, e, c) ==
  IF an # bn /\ c = 0 THEN Zero
  ELSE RoundToDouble(IF an = bn \/ c > 0 THEN an ELSE bn,
                     IF an = bn THEN BigAdd(x, y)
                     ELSE IF c > 0 THEN BigSub(x, y) ELSE BigSub(y, x),
                     e, FALSE)

\* the sum of two finite floats, both brought to the exponent e
FAddFinite(an, x, bn, y, e) == FAddAligned(an, x, bn, y, e, BigCmp(x, y))

\* float.__add__
FAdd(a, b) ==
  IF a.k = "nan" \/ b.k = "nan" THEN NaN
  ELSE IF a.k = "inf" THEN (IF b.k = "inf" /\ b.neg # a.neg THEN NaN ELSE a)
  ELSE IF b.k = "inf" THEN b
  ELSE FAddFinite(a.neg, BigShl(a.m, a.e - Min(a.e, b.e)),
                  b.neg, BigShl(b.m, b.e - Min(a.e, b.e)), Min(a.e, b.e))

\* amount <= 0 (line 42): every comparison with NaN is False
FLeqZero(a) == a.k # "nan" /\ (a.neg \/ (a.k = "num" /\ a.m = << >>))

\* amount > 0
FPositive(a) == a.k # "nan" /\ ~a.neg /\ ~(a.k = "num" /\ a.m = << >>)

\* sum(...) over a sequence of floats, left to right from 0
RECURSIVE FSum(_)
FSum(s) ==
  IF s = << >> THEN Zero
  ELSE FAdd(FSum(SubSeq(s, 1, Len(s) - 1)), s[Len(s)])

(***************************************************************************)
(* float(text).                                                            *)
(***************************************************************************)
\* the white space beyond ASCII (Py_UNICODE_ISSPACE): next line, the
\* no-break spaces, the spaces of U+1680, U+2000 to U+200A, U+205F and
\* U+3000, and the line and paragraph separators
UnicodeSpaces ==
  {133, 160, 5760} \cup (8192..8202) \cup {8232, 8233, 8239, 8287, 12288}

\* float() first writes its text in ASCII: a character below 127 stays, a
\* space beyond ASCII becomes " ", a decimal digit of any script becomes
\* the ASCII digit of its value, and any other character becomes "?" (the
\* code stops there; with it the text is no number)
ToAscii(c) ==
  IF c < 127 THEN c
  ELSE IF c \in UnicodeSpaces THEN Ord(" ")
  ELSE IF IsDigit(c) THEN DigitChar(DigitVal(c))
  ELSE Ord("?")

AsciiText(t) == [i \in 1..Len(t) |-> ToAscii(t[i])]

\* the white space float() removes from both ends of that text: space, tab,
\* line feed, vertical tab, form feed and carriage return
Whitespace == {32} \cup (9..13)

\* the number of white space characters t starts with
LeadingSpace(t) ==
  LET ink == {i \in 1..Len(t) : t[i] \notin Whitespace}
  IN IF ink = {} THEN Len(t) ELSE (CHOOSE i \in ink : \A j \in ink : i <= j) - 1

Reverse(t) == [i \in 1..Len(t) |-> t[Len(t) + 1 - i]]

\* from the first to the last character that is no white space
Strip(t) == SubSeq(t, LeadingSpace(t) + 1, Len(t) - LeadingSpace(Reverse(t)))

\* the letters of inf, infinity and nan in lower case
Lower(c) == IF c \in {Ord(x) : x \in {"I", "N", "F", "T", "Y", "A"}} THEN c + 32 ELSE c

LowerText(t) == [i \in 1..Len(t) |-> Lower(t[i])]

\* the length of the run of digits and underscores that t starts with
RunLen(t) ==
  LET stop == {i \in 1..Len(t) : ~(IsDigit(t[i]) \/ t[i] = Ord("_"))}
  IN IF stop = {} THEN Len(t) ELSE (CHOOSE i \in stop : \A j \in stop : i <= j) - 1

\* an underscore stands only between two digits
RunOk(r) ==
  \A i \in 1..Len(r) :
    r[i] = Ord("_") => (i > 1 /\ i < Len(r) /\ IsDigit(r[i - 1]) /\ IsDigit(r[i + 1]))

Digits(r) == SelectSeq(r, IsDigit)

\* a run of digits without the zeros it starts with
StripZeros(d) ==
  LET other == {i \in 1..Len(d) : d[i] # Ord("0")}
  IN IF other = {} THEN << >>
     ELSE SubSeq(d, CHOOSE i \in other : \A j \in other : i <= j, Len(d))

\* the number a run of decimal digits writes: the left half times the
\* power of ten of the right half, plus the right half
RECURSIVE BigFromDigits(_)
BigFromDigits(d) ==
  IF Len(d) <= 9 THEN BigFromNat(DigitsVal(d))
  ELSE LET left == BigFromDigits(SubSeq(d, 1, Len(d) \div 2))
           right == BigFromDigits(SubSeq(d, Len(d) \div 2 + 1, Len(d)))
       IN IF left = << >> THEN right
          ELSE BigAdd(BigMul(left, BigPow10(Len(d) - Len(d) \div 2)), right)

\* an integer of any size: a sign and a magnitude
SBig(neg, mag) == [neg |-> neg, mag |-> mag]

SBigAdd(a, b) ==
  IF a.neg = b.neg THEN SBig(a.neg, BigAdd(a.mag, b.mag))
  ELSE IF BigCmp(a.mag, b.mag) >= 0 THEN SBig(a.neg, BigSub(a.mag, b.mag))
  ELSE SBig(b.neg, BigSub(b.mag, a.mag))

\* a number of any size that an integer of the model can hold
RECURSIVE BigToNat(_)
BigToNat(a) == IF a = << >> THEN 0 ELSE a[1] + LimbBase * BigToNat(Tail(a))

\* the value of the exponent digits, whatever their number
ExpVal(d) == BigFromDigits(d)

\* the float nearest to q + (a fraction, when r # 0), over 2^s
RoundQuotient(neg, dm, s) == RoundToDouble(neg, dm.q, 0 - s, dm.r # << >>)

\* the float nearest to n / t, for n # 0 and t # 0: n is shifted so that
\* the quotient has at least 56 binary digits, and what is left over makes
\* it sticky
DivideShifted(neg, n, t, s) == RoundQuotient(neg, BigDivMod(BigShl(n, s), t), s)

DivideToDouble(neg, n, t) ==
  DivideShifted(neg, n, t, Max(BigBitLen(t) - BigBitLen(n) + MantBits + 3, 0))

\* the float nearest to n * p (up) or n / p, for p a power of ten
ScaleToDouble(neg, n, p, up) ==
  IF up THEN RoundToDouble(neg, BigMul(n, p), 0, FALSE) ELSE DivideToDouble(neg, n, p)

\* the float nearest to ds * 10^x, ds a run of decimal digits that starts
\* with a digit other than 0 and p = Len(ds) + x the place of the point:
\* anything of 10^310 or more is infinite and anything below 10^-325 is zero
DecimalAt(neg, ds, x, p) ==
  IF ~p.neg /\ BigCmp(p.mag, BigFromNat(310)) > 0 THEN Inf(neg)
  ELSE IF p.neg /\ BigCmp(p.mag, BigFromNat(325)) > 0 THEN FZero(neg)
  ELSE ScaleToDouble(neg, BigFromDigits(ds), BigPow10(BigToNat(x.mag)),
                     ~x.neg \/ x.mag = << >>)

\* the float nearest to ds * 10^x, ds a run of decimal digits that starts
\* with none or a digit other than 0
DecimalOf(neg, ds, x) ==
  IF ds = << >> THEN FZero(neg)
  ELSE DecimalAt(neg, ds, x, SBigAdd(x, SBig(FALSE, BigFromNat(Len(ds)))))

\* the float nearest to d * 10^x, d a run of decimal digits
DecimalToDouble(neg, d, x) == DecimalOf(neg, StripZeros(d), x)

\* inf and infinity
InfTexts ==
  {Text(<<"i", "n", "f">>), Text(<<"i", "n", "f", "i", "n", "i", "t", "y">>)}

TextNan == Text(<<"n", "a", "n">>)

\* the run of digits and underscores t starts with, when one may stand
\* there, and what follows it
TakeRun(t, on) == SubSeq(t, 1, IF on THEN RunLen(t) ELSE 0)

DropRun(t, on) == SubSeq(t, (IF on THEN RunLen(t) ELSE 0) + 1, Len(t))

\* the end of float(text): the runs before the point, after it and of the
\* exponent are digits with single underscores between them, one of the
\* first two is there, an exponent mark has digits after it, and nothing is
\* left over
ParseEnd(neg, ipart, fpart, hasExp, eneg, epart, rest) ==
  IF /\ RunOk(ipart) /\ RunOk(fpart) /\ RunOk(epart)
     /\ (ipart # << >> \/ fpart # << >>)
     /\ (hasExp => epart # << >>)
     /\ rest = << >>
  THEN [ok |-> TRUE,
        val |-> DecimalToDouble(neg, Digits(ipart) \o Digits(fpart),
                                SBigAdd(SBig(eneg, ExpVal(Digits(epart))),
                                        SBig(TRUE, BigFromNat(Len(Digits(fpart))))))]
  ELSE [ok |-> FALSE, val |-> Zero]

\* the digits of the exponent
ParseExpDigits(neg, ipart, fpart, hasExp, eneg, rest) ==
  ParseEnd(neg, ipart, fpart, hasExp, eneg, TakeRun(rest, hasExp), DropRun(rest, hasExp))

\* the sign of the exponent
ParseExpSign(neg, ipart, fpart, hasExp, esigned, rest) ==
  ParseExpDigits(neg, ipart, fpart, hasExp, esigned /\ rest[1] = Ord("-"),
                 IF esigned THEN Tail(rest) ELSE rest)

\* the exponent mark and what follows it
ParseExp(neg, ipart, fpart, hasExp, rest) ==
  ParseExpSign(neg, ipart, fpart, hasExp,
               hasExp /\ rest # << >> /\ rest[1] \in {Ord("+"), Ord("-")}, rest)

\* what follows the digits after the point
ParseMark(neg, ipart, fpart, rest) ==
  ParseExp(neg, ipart, fpart, rest # << >> /\ rest[1] \in {Ord("e"), Ord("E")},
           IF rest # << >> /\ rest[1] \in {Ord("e"), Ord("E")} THEN Tail(rest) ELSE rest)

\* the digits after the point
ParseFraction(neg, ipart, hasDot, rest) ==
  ParseMark(neg, ipart, TakeRun(rest, hasDot), DropRun(rest, hasDot))

\* the point
ParsePoint(neg, ipart, rest) ==
  ParseFraction(neg, ipart, rest # << >> /\ rest[1] = Ord("."),
                IF rest # << >> /\ rest[1] = Ord(".") THEN Tail(rest) ELSE rest)

\* the text after the sign: inf, infinity or nan in any case, or a number
ParseBody(neg, body) ==
  IF LowerText(body) \in InfTexts THEN [ok |-> TRUE, val |-> Inf(neg)]
  ELSE IF LowerText(body) = TextNan THEN [ok |-> TRUE, val |-> NaN]
  ELSE ParsePoint(neg, TakeRun(body, TRUE), DropRun(body, TRUE))

\* the sign
ParseSigned(s) ==
  ParseBody(s # << >> /\ s[1] = Ord("-"),
            IF s # << >> /\ s[1] \in {Ord("+"), Ord("-")} THEN Tail(s) ELSE s)

\* float(t) for text t: [ok, val]; ok = FALSE is the ValueError.  The text
\* is written in ASCII and stripped of white space; then it is a sign and
\* inf, infinity or nan in any case, or a sign, digits, a point and digits,
\* and an exponent, with single underscores allowed between digits.
ParseFloat(t) == ParseSigned(Strip(AsciiText(t)))

\* the amount texts of the model
Text_0_1 == Text(<<"0", ".", "1">>)

Text_1_1 == Text(<<"1", ".", "1">>)

Text_1 == Text(<<"1">>)

Text_abc == Text(<<"a", "b", "c">>)

\* a vertical tab, the Arabic-Indic digit one (U+0661) and a no-break space
Text_Arabic_1 == <<11, 1633, 160>>

AmountTexts == {Text_1, Text_abc, TextNan, Text_0_1, Text_1_1, Text_Arabic_1}

\* ParseFloat of the model's texts, computed once
ParsedFloats == [t \in AmountTexts |-> ParseFloat(t)]

\* an amount argument: text (what the form hands over), a float, or
\* something that is neither (None)
StrArg(t) == [type |-> "str", text |-> t, val |-> Zero]

NumArg(v) == [type |-> "num", text |-> << >>, val |-> v]

NoneArg == [type |-> "none", text |-> << >>, val |-> Zero]

\* float(text) as [ok, val, exc]: the exception is the ValueError
Converted(r) ==
  [ok |-> r.ok, val |-> r.val, exc |-> IF r.ok THEN "none" ELSE "ValueError"]

\* float(amount) (line 41): [ok, val, exc]; a float converts to itself,
\* text is parsed, and what is neither raises the TypeError
ToFloat(a) ==
  IF a.type = "num" THEN [ok |-> TRUE, val |-> a.val, exc |-> "none"]
  ELSE IF a.type = "none" THEN [ok |-> FALSE, val |-> Zero, exc |-> "TypeError"]
  ELSE Converted(IF a.text \in AmountTexts THEN ParsedFloats[a.text]
                 ELSE ParseFloat(a.text))

(***************************************************************************)
(* Expense and its dictionary form.                                        *)
(***************************************************************************)
\* Expense.__init__
Expense(amount, category, date, description) ==
  [amount |-> amount, category |-> category, date |-> date,
   description |-> description]

\* self.categories
Categories ==
  {"Food", "Transportation", "Entertainment", "Utilities", "Rent/Mortgage",
   "Healthcare", "Education", "Shopping", "Other"}

FieldNames == {"amount", "category", "date", "description"}

\* a JSON number as json.dump writes a float: NaN, Infinity, -Infinity, or
\* float.__repr__, the shortest decimal that reads back as the same float
JsonNumber(a) ==
  IF a.k = "nan" THEN [tok |-> "NaN", val |-> Zero]
  ELSE IF a.k = "inf"
    THEN [tok |-> IF a.neg THEN "-Infinity" ELSE "Infinity", val |-> Zero]
  ELSE [tok |-> "number", val |-> a]

\* the float json.load makes of it
JsonToFloat(j) ==
  IF j.tok = "NaN" THEN NaN
  ELSE IF j.tok = "Infinity" THEN Inf(FALSE)
  ELSE IF j.tok = "-Infinity" THEN Inf(TRUE)
  ELSE j.val

\* an element of a JSON array: an object with the keys it has, or anything
\* else (a number, a string, a list)
DictItem(keys, amount, category, date, description) ==
  [type |-> "dict", keys |-> keys, amount |-> amount, category |-> category,
   date |-> date, description |-> description]

OtherItem == [type |-> "other", keys |-> {}, amount |-> JsonNumber(Zero),
              category |-> "", date |-> << >>, description |-> ""]

\* Expense.to_dict
to_dict(e) ==
  DictItem(FieldNames, JsonNumber(e.amount), e.category, Strftime(e.date),
           e.description)

NoExpense == Expense(Zero, "", NoDate, "")

\* the rest of from_dict (line 27) once the date text was parsed as p
FromParsed(data, p) ==
  IF ~p.ok \/ "amount" \notin data.keys \/ "category" \notin data.keys
  THEN [ok |-> FALSE, expense |-> NoExpense]
  ELSE [ok |-> TRUE,
        expense |-> Expense(JsonToFloat(data.amount), data.category, p.date,
                            IF "description" \in data.keys
                            THEN data.description ELSE "")]

\* Expense.from_dict: [ok, expense]; ok = FALSE is the TypeError of an item
\* that is no dictionary, the KeyError of a missing key or the ValueError
\* of the date
from_dict(data) ==
  IF data.type # "dict" \/ "date" \notin data.keys
  THEN [ok |-> FALSE, expense |-> NoExpense]
  ELSE FromParsed(data, Strptime(data.date))

(***************************************************************************)
(* The backing file: absent, text that is no JSON, or a JSON document.     *)
(***************************************************************************)
\* a JSON document: an array of items, an object or a string with n keys or
\* characters, or null
Doc(type, items, n) == [type |-> type, items |-> items, n |-> n]

ArrayDoc(items) == Doc("array", items, Len(items))

FileAbsent == [kind |-> "absent", doc |-> Doc("null", << >>, 0)]

FileGarbage == [kind |-> "garbage", doc |-> Doc("null", << >>, 0)]

FileJson(doc) == [kind |-> "json", doc |-> doc]

\* what "for item in data" (line 107) walks over: [ok, items]; ok = FALSE is
\* the TypeError of a value that cannot be iterated.  An object yields its
\* keys and a string its characters, none of them a dictionary.
Iterate(doc) ==
  IF doc.type = "array" THEN [ok |-> TRUE, items |-> doc.items]
  ELSE IF doc.type \in {"object", "string"}
    THEN [ok |-> TRUE, items |-> [i \in 1..doc.n |-> OtherItem]]
  ELSE [ok |-> FALSE, items |-> << >>]

\* the assignment of line 107, rs being from_dict of the items in turn
LoadConverted(rs, exps) ==
  IF \A i \in 1..Len(rs) : rs[i].ok
  THEN [ok |-> TRUE, expenses |-> [i \in 1..Len(rs) |-> rs[i].expense]]
  ELSE [ok |-> FALSE, expenses |-> exps]

\* the list comprehension of line 107 over what the document yields
LoadItems(it, exps) ==
  IF it.ok
  THEN LoadConverted([i \in 1..Len(it.items) |-> from_dict(it.items[i])], exps)
  ELSE [ok |-> FALSE, expenses |-> exps]

\* ExpenseTracker.load_expenses on file f of a tracker whose self.expenses
\* is exps: [ok, expenses], the ledger afterwards; ok = FALSE is
\* Exception("Error loading expenses: ...").  Without the file nothing is
\* done; self.expenses is assigned (line 107) only when every item was
\* converted, so a failure leaves it as it was.
load_expenses(f, exps) ==
  IF f.kind = "absent" THEN [ok |-> TRUE, expenses |-> exps]
  ELSE IF f.kind = "garbage" THEN [ok |-> FALSE, expenses |-> exps]
  ELSE LoadItems(Iterate(f.doc), exps)

\* ExpenseTracker.save_expenses: the file afterwards.  how = "ok": the dump
\* is written; "open": open(filename, 'w') raises and the file is as it
\* was; "write": the write breaks off after the file was truncated.
save_expenses(f, exps, how) ==
  IF how = "ok" THEN FileJson(ArrayDoc([i \in 1..Len(exps) |-> to_dict(exps[i])]))
  ELSE IF how = "open" THEN f
  ELSE FileGarbage

SaveOutcomes == {"ok", "open", "write"}

(***************************************************************************)
(* The queries.  An optional argument is [given, isText, val, text];       *)
(* given = FALSE is None, otherwise it is the number val or the str text.  *)
(***************************************************************************)
None == [given |-> FALSE, isText |-> FALSE, val |-> 0, text |-> ""]

Some(v) == [given |-> TRUE, isText |-> FALSE, val |-> v, text |-> ""]

SomeText(s) == [given |-> TRUE, isText |-> TRUE, val |-> 0, text |-> s]

\* the truth value of an optional argument: "if filter_month:" (lines 64,
\* 67, 70, 76, 78); None, 0 and "" are false
Truthy(x) == x.given /\ (IF x.isText THEN x.text # "" ELSE x.val # 0)

\* "filter_category and filter_category != 'All'" (line 64)
CategoryFilterOn(x) == Truthy(x) /\ ~(x.isText /\ x.text = "All")

\* ExpenseTracker.view_expenses: [alias, items].  alias = TRUE: the list
\* returned is self.expenses itself (line 62 binds the name to it and no
\* filter replaced it); otherwise items is a new list.  A str is equal to
\* no number and a number to no str, so the month filter "All" keeps no
\* record.
view_expenses(exps, filter_category, filter_month, filter_year) ==
  LET s1 == IF CategoryFilterOn(filter_category)
            THEN SelectSeq(exps, LAMBDA e : /\ filter_category.isText
                                           /\ e.category = filter_category.text)
            ELSE exps
      s2 == IF Truthy(filter_month)
            THEN SelectSeq(s1, LAMBDA e : /\ ~filter_month.isText
                                         /\ e.date.m = filter_month.val)
            ELSE s1
      s3 == IF Truthy(filter_year)
            THEN SelectSeq(s2, LAMBDA e : /\ ~filter_year.isText
                                         /\ e.date.y = filter_year.val)
            ELSE s2
      filtered == CategoryFilterOn(filter_category) \/ Truthy(filter_month)
                    \/ Truthy(filter_year)
  IN [alias |-> ~filtered, items |-> IF filtered THEN s3 ELSE << >>]

Amounts(s) == [i \in 1..Len(s) |-> s[i].amount]

\* the clock as one call of monthly_summary reads it: datetime.datetime.now()
\* of line 77 and, after it, that of line 79
Clock(first, second) == [first |-> first, second |-> second]

\* ExpenseTracker.monthly_summary: the month that is not given is taken from
\* the first reading of the clock, the year from the second; sum() and +=
\* add from the left
monthly_summary(exps, month, year, now) ==
  LET m == IF Truthy(month) THEN month ELSE Some(now.first.m)
      y == IF Truthy(year) THEN year ELSE Some(now.second.y)
      monthly_expenses ==
        SelectSeq(exps, LAMBDA e : /\ ~m.isText /\ e.date.m = m.val
                                   /\ ~y.isText /\ e.date.y = y.val)
      cats == {monthly_expenses[i].category : i \in 1..Len(monthly_expenses)}
  IN [total |-> FSum(Amounts(monthly_expenses)),
      by_category |->
        [c \in cats |->
           FSum(Amounts(SelectSeq(monthly_expenses, LAMBDA e : e.category = c)))],
      count |-> Len(monthly_expenses)]

(***************************************************************************)
(* The state.                                                              *)
(*   file        the backing file                                          *)
(*   alive       an ExpenseTracker was constructed and is in the caller's  *)
(*               hands                                                     *)
(*   expenses    self.expenses                                             *)
(*   held        the list the caller holds from its last view_expenses:    *)
(*               self.expenses itself (alias) or a list of its own         *)
(*   ret         how the last call of the constructor, add_expense,        *)
(*               load_expenses, save_expenses or monthly_summary ended:    *)
(*               the exception raised, if any, and the summary asked for   *)
(*               and returned                                              *)
(*   saveFailures   the saves that have failed in this run                 *)
(*   callerChanges  the changes the caller made to lists it was handed     *)
(***************************************************************************)
NoSummary == [total |-> Zero, by_category |-> [c \in {} |-> Zero], count |-> 0]

Ret(op, exc) ==
  [op |-> op, exc |-> exc, month |-> None, year |-> None, summary |-> NoSummary]

HeldNone == [kind |-> "none", items |-> << >>]

\* the elements of the list the caller holds
HeldItems == IF held.kind = "alias" THEN expenses ELSE held.items

(***************************************************************************)
(* The inputs the model draws from.                                        *)
(***************************************************************************)
\* a date argument: text or a datetime.date
DateStr(t) == [type |-> "str", text |-> t, date |-> NoDate]

DateObj(d) == [type |-> "date", text |-> << >>, date |-> d]

\* Spec: the tracker with its file, every kind of argument of add_expense
AmountInputs ==
  {StrArg(Text_1), StrArg(Text_abc), StrArg(TextNan), StrArg(Text_Arabic_1),
   NumArg(Num(0 - 5)), NumArg(Zero), NoneArg}

CategoryInputs == {"Food", "Groceries"}

DateInputs ==
  {DateStr(Text_2024_03_05), DateStr(Text_0999_01_01), DateStr(Text_2023_02_29),
   DateStr(Text_Fullwidth_2024_03_05), DateObj(Date(2024, 12, 15))}

DescriptionInputs == {"lunch"}

CategoryFilters == {None}

MonthFilters == {None, Some(3)}

YearFilters == {None}

SummaryMonths == {None, Some(3)}

SummaryYears == {None, Some(2024)}

\* the clock on one day, and over midnight into a new year
Nows ==
  {Clock(Date(2024, 3, 5), Date(2024, 3, 5)),
   Clock(Date(2023, 12, 31), Date(2024, 1, 1))}

\* SpecView and SpecSummary: ledgers of valid records that differ in
\* category, month and year (and, for the sums, in amount), and the filters
QAmountInputs == {StrArg(Text_0_1), StrArg(Text_1_1)}

VAmountInputs == {StrArg(Text_1)}

QCategoryInputs == {"Food", "Rent/Mortgage"}

QDateInputs == {DateStr(Text_2024_03_05), DateStr(Text_0999_01_01)}

VDateInputs ==
  {DateStr(Text_2024_03_05), DateStr(Text_0999_01_01), DateObj(Date(999, 3, 1))}

QCategoryFilters == {None, SomeText("All"), SomeText("Food")}

QMonthFilters == {None, SomeText("All"), Some(0), Some(3)}

QYearFilters == {None, SomeText("All"), Some(999)}

QSummaryMonths == {None, Some(1), Some(3)}

QSummaryYears == {None, Some(999), Some(2024)}

QNows ==
  {Clock(Date(2024, 3, 5), Date(2024, 3, 5)),
   Clock(Date(2026, 10, 30), Date(2026, 10, 30)),
   Clock(Date(2023, 12, 31), Date(2024, 1, 1))}

\* the items of the files the tracker may find at start
ItemValid ==
  DictItem(FieldNames, JsonNumber(Num(1)), "Food", Text_2024_03_05, "lunch")

ItemNoDescription ==
  DictItem(FieldNames \ {"description"}, JsonNumber(Num(2)), "Rent/Mortgage",
           Text_2024_3_5, "")

ItemNegative ==
  DictItem(FieldNames, JsonNumber(Num(0 - 5)), "Food", Text_2024_03_05, "lunch")

ItemGroceries ==
  DictItem(FieldNames, JsonNumber(Num(1)), "Groceries", Text_0999_01_01, "lunch")

ItemNoAmount ==
  DictItem(FieldNames \ {"amount"}, JsonNumber(Zero), "Food", Text_2024_03_05, "lunch")

ItemNoCategory ==
  DictItem(FieldNames \ {"category"}, JsonNumber(Num(1)), "", Text_2024_03_05, "lunch")

ItemNoDate ==
  DictItem(FieldNames \ {"date"}, JsonNumber(Num(1)), "Food", << >>, "lunch")

ItemBadDate ==
  DictItem(FieldNames, JsonNumber(Num(1)), "Food", Text_2023_02_29, "lunch")

InitFiles ==
  {FileAbsent, FileGarbage,
   FileJson(Doc("null", << >>, 0)),
   FileJson(Doc("object", << >>, 0)), FileJson(Doc("object", << >>, 1)),
   FileJson(Doc("string", << >>, 0)), FileJson(Doc("string", << >>, 2)),
   FileJson(ArrayDoc(<< >>)),
   FileJson(ArrayDoc(<<ItemValid>>)), FileJson(ArrayDoc(<<ItemNoDescription>>)),
   FileJson(ArrayDoc(<<ItemNegative>>)), FileJson(ArrayDoc(<<ItemGroceries>>)),
   FileJson(ArrayDoc(<<ItemNoAmount>>)), FileJson(ArrayDoc(<<ItemNoCategory>>)),
   FileJson(ArrayDoc(<<ItemNoDate>>)), FileJson(ArrayDoc(<<ItemBadDate>>)),
   FileJson(ArrayDoc(<<OtherItem>>)),
   FileJson(ArrayDoc(<<ItemValid, ItemNoAmount>>)),
   FileJson(ArrayDoc(<<ItemValid, ItemNoDescription>>))}

(***************************************************************************)
(* Init and the operations.                                                *)
(***************************************************************************)
Init ==
  /\ file \in InitFiles
  /\ alive = FALSE
  /\ expenses = << >>
  /\ held = HeldNone
  /\ ret = Ret("none", "none")
  /\ saveFailures = 0
  /\ callerChanges = 0

\* ExpenseTracker(filename): __init__ sets self.expenses = [] and calls
\* load_expenses; when that raises the caller gets no tracker
Constructed(l) ==
  /\ alive' = l.ok
  /\ expenses' = l.expenses
  /\ held' = HeldNone
  /\ ret' = Ret("init", IF l.ok THEN "none" ELSE "Exception")
  /\ UNCHANGED <<file, saveFailures, callerChanges>>

NewTracker == Constructed(load_expenses(file, << >>))

\* the date add_expense stores (lines 48-49): [ok, date]
AddDate(date) ==
  IF date.type = "str" THEN Strptime(date.text) ELSE [ok |-> TRUE, date |-> date.date]

\* the checks of add_expense before it appends (lines 41-49), f being
\* float(amount) and d the date converted
AddChecks(f, category, d) ==
  /\ f.ok
  /\ ~FLeqZero(f.val)
  /\ category \in Categories
  /\ d.ok

AddValid(amount, category, date) == AddChecks(ToFloat(amount), category, AddDate(date))

\* the Expense built without the description
AddRecordNoDescription(f, category, d, description) ==
  Expense(f.val, category, d.date, "")

\* the Expense add_expense builds (line 51)
AddRecord(f, category, d, description) ==
  Expense(f.val, category, d.date, description)

\* a failed save reported as the validation error
AddSaveErrorAsValidation == "ValueError"

\* the exception add_expense ends with when save_expenses raised: the
\* Exception of line 100 is no ValueError and leaves by line 59
AddSaveError == "Exception"

\* the exception add_expense ends with when a check failed: the ValueError
\* of line 57, or for the TypeError of float() the Exception of line 59
AddCheckError(f) == IF f.exc = "TypeError" THEN "Exception" ELSE "ValueError"

\* add_expense from line 42 on, f being float(amount) and d the date
\* converted; how is what the save meets
AddConverted(f, category, d, description, how) ==
  /\ alive
  /\ IF AddChecks(f, category, d)
     THEN /\ how # "ok" => saveFailures < MaxSaveFailures
          /\ expenses' = Append(expenses, AddRecord(f, category, d, description))
          /\ file' = save_expenses(file, expenses', how)
          /\ ret' = Ret("add", IF how = "ok" THEN "none" ELSE AddSaveError)
          /\ saveFailures' = IF how = "ok" THEN saveFailures ELSE saveFailures + 1
     ELSE /\ how = "ok"
          /\ ret' = Ret("add", AddCheckError(f))
          /\ UNCHANGED <<expenses, file, saveFailures>>
  /\ UNCHANGED <<alive, held, callerChanges>>

\* ExpenseTracker.add_expense
add_expense(amount, category, date, description, how) ==
  AddConverted(ToFloat(amount), category, AddDate(date), description, how)

\* a call of add_expense with arguments from the given sets, on a ledger
\* that stays within cap records
AddOver(amounts, categories, dates, hows, cap) ==
  \E amount \in amounts, category \in categories, date \in dates,
     description \in DescriptionInputs, how \in hows :
    /\ AddValid(amount, category, date) => Len(expenses) < cap
    /\ add_expense(amount, category, date, description, how)

AddStep == AddOver(AmountInputs, CategoryInputs, DateInputs, SaveOutcomes, MaxLen)

QAddStep == AddOver(QAmountInputs, QCategoryInputs, QDateInputs, {"ok"}, QMaxLen)

VAddStep == AddOver(VAmountInputs, QCategoryInputs, VDateInputs, {"ok"}, QMaxLen)

\* a call of view_expenses; the caller keeps the list it got
ViewCall(fc, fm, fy) ==
  LET v == view_expenses(expenses, fc, fm, fy)
  IN /\ alive
     /\ held' = [kind |-> IF v.alias THEN "alias" ELSE "fresh", items |-> v.items]
     /\ UNCHANGED <<file, alive, expenses, ret, saveFailures, callerChanges>>

ViewStep ==
  \E fc \in CategoryFilters, fm \in MonthFilters, fy \in YearFilters :
    ViewCall(fc, fm, fy)

QViewStep ==
  \E fc \in QCategoryFilters, fm \in QMonthFilters, fy \in QYearFilters :
    ViewCall(fc, fm, fy)

\* a call of monthly_summary
SummaryCall(month, year, now) ==
  /\ alive
  /\ ret' = [op |-> "summary", exc |-> "none", month |-> month, year |-> year,
             summary |-> monthly_summary(expenses, month, year, now)]
  /\ UNCHANGED <<file, alive, expenses, held, saveFailures, callerChanges>>

SummaryStep ==
  \E month \in SummaryMonths, year \in SummaryYears, now \in Nows :
    SummaryCall(month, year, now)

QSummaryStep ==
  \E month \in QSummaryMonths, year \in QSummaryYears, now \in QNows :
    SummaryCall(month, year, now)

\* tracker.load_expenses() on a tracker in use: the ledger becomes what the
\* file holds, in a new list, so a list the caller holds from an unfiltered
\* view stays as it is and is the ledger no more; without the file, or when
\* the load raises, the tracker keeps its ledger
Loaded(l) ==
  /\ alive
  /\ expenses' = l.expenses
  /\ held' = IF l.ok /\ file.kind # "absent" /\ held.kind = "alias"
             THEN [kind |-> "fresh", items |-> expenses]
             ELSE held
  /\ ret' = Ret("load", IF l.ok THEN "none" ELSE "Exception")
  /\ UNCHANGED <<file, alive, saveFailures, callerChanges>>

LoadCall == Loaded(load_expenses(file, expenses))

\* tracker.save_expenses() on its own: the file is rewritten from the
\* ledger as it is, or the save raises Exception("Error saving expenses: ...")
SaveCall(how) ==
  /\ alive
  /\ how # "ok" => saveFailures < MaxSaveFailures
  /\ file' = save_expenses(file, expenses, how)
  /\ ret' = Ret("save", IF how = "ok" THEN "none" ELSE "Exception")
  /\ saveFailures' = IF how = "ok" THEN saveFailures ELSE saveFailures + 1
  /\ UNCHANGED <<alive, expenses, held, callerChanges>>

SaveStep == \E how \in SaveOutcomes : SaveCall(how)

\* the caller changes the list it holds: held.clear()
CallerClear ==
  /\ alive
  /\ held.kind # "none"
  /\ HeldItems # << >>
  /\ callerChanges < MaxCallerChanges
  /\ callerChanges' = callerChanges + 1
  /\ IF held.kind = "alias"
     THEN /\ expenses' = << >>
          /\ held' = held
     ELSE /\ held' = [held EXCEPT !.items = << >>]
          /\ expenses' = expenses
  /\ UNCHANGED <<file, alive, ret, saveFailures>>

Next ==
  NewTracker \/ AddStep \/ ViewStep \/ SummaryStep \/ LoadCall \/ SaveStep
    \/ CallerClear

Spec == Init /\ [][Next]_vars

\* add_expense alone, on the files that load
AddInit ==
  /\ file \in {f \in InitFiles : load_expenses(f, << >>).ok}
  /\ alive = FALSE
  /\ expenses = << >>
  /\ held = HeldNone
  /\ ret = Ret("none", "none")
  /\ saveFailures = 0
  /\ callerChanges = 0

AddNext == NewTracker \/ AddStep

SpecAdd == AddInit /\ [][AddNext]_vars

\* the queries over ledgers built by add_expense on a new file
QInit ==
  /\ file = FileAbsent
  /\ alive = FALSE
  /\ expenses = << >>
  /\ held = HeldNone
  /\ ret = Ret("none", "none")
  /\ saveFailures = 0
  /\ callerChanges = 0

ViewNext == NewTracker \/ VAddStep \/ QViewStep

SpecView == QInit /\ [][ViewNext]_vars

SummaryNext == NewTracker \/ QAddStep \/ QSummaryStep

SpecSummary == QInit /\ [][SummaryNext]_vars

(***************************************************************************)
(* The claims.                                                             *)
(***************************************************************************)
\* the records view_expenses hands back
ViewItems(exps, fc, fm, fy) ==
  LET v == view_expenses(exps, fc, fm, fy)
  IN IF v.alias THEN exps ELSE v.items

\* the amount converts to a number > 0, the category is one of the fixed
\* set, the date is a date or text that parses
ClaimValidInput(amount, category, date) ==
  /\ ToFloat(amount).ok /\ FPositive(ToFloat(amount).val)
  /\ category \in Categories
  /\ date.type = "date" \/ Strptime(date.text).ok

\* the amount is no number (text float() refuses, or not-a-number) or a
\* number <= 0, or the category is not of the fixed set, or the date text
\* does not parse
ClaimInvalidInput(amount, category, date) ==
  \/ ~ToFloat(amount).ok
  \/ ToFloat(amount).ok /\ ToFloat(amount).val.k = "nan"
  \/ ToFloat(amount).ok /\ FLeqZero(ToFloat(amount).val)
  \/ category \notin Categories
  \/ date.type = "str" /\ ~Strptime(date.text).ok

\* the record the claims expect: the converted amount, the category, the
\* parsed date, the description
ClaimRecord(amount, category, date, description) ==
  Expense(ToFloat(amount).val, category,
          IF date.type = "date" THEN date.date ELSE Strptime(date.text).date,
          description)

\* the arguments the model draws from
ClaimInputs == [amount : AmountInputs, category : CategoryInputs, date : DateInputs]

\* the valid ones among them, as a union of sets of one so that the set is
\* computed once
ClaimValidInputs ==
  UNION {IF ClaimValidInput(args.amount, args.category, args.date) THEN {args} ELSE {} :
           args \in ClaimInputs}

\* C1: an add_expense call with valid arguments whose save succeeds ends
\* without an exception and leaves the ledger as it was with the one new
\* record at the end: the unfiltered view holds the new record exactly once,
\* after the earlier records, which are unchanged and in their order.
C1_AddAppendsOne ==
  [][\A args \in ClaimValidInputs, description \in DescriptionInputs :
       add_expense(args.amount, args.category, args.date, description, "ok")
       => LET new == ClaimRecord(args.amount, args.category, args.date, description)
              all == ViewItems(expenses', None, None, None)
              n == Len(expenses)
          IN /\ ret'.op = "add" /\ ret'.exc = "none"
             /\ Len(expenses') = n + 1
             /\ \A i \in 1..n : expenses'[i] = expenses[i]
             /\ expenses'[n + 1] = new
             /\ Len(all) = n + 1
             /\ \A i \in 1..n : all[i] = expenses[i]
             /\ Cardinality({i \in (n + 1)..Len(all) : all[i] = new}) = 1]_vars

\* an add_expense call has succeeded on a ledger that already held a record
C1_Witness ==
  /\ alive /\ ret.op = "add" /\ ret.exc = "none"
  /\ Len(expenses) >= 2 /\ callerChanges = 0 /\ saveFailures = 0

\* C2: an add_expense call whose amount is no number or a number <= 0, or
\* whose category is not of the fixed set, or whose date text does not
\* parse, ends with the ValueError and leaves the ledger and the file as
\* they were, with no save made, also when the ledger holds loaded records
\* of a category outside the fixed set.
C2_InvalidAddChangesNothing ==
  [][\A amount \in AmountInputs, category \in CategoryInputs, date \in DateInputs,
        description \in DescriptionInputs, how \in SaveOutcomes :
       (/\ ClaimInvalidInput(amount, category, date)
        /\ add_expense(amount, category, date, description, how))
       => /\ ret'.op = "add" /\ ret'.exc = "ValueError"
          /\ expenses' = expenses
          /\ file' = file
          /\ saveFailures' = saveFailures]_vars

\* every record of the ledger is a valid one
AllValid(exps) ==
  \A i \in 1..Len(exps) :
    FPositive(exps[i].amount) /\ exps[i].category \in Categories

\* C3: round trip: once a non-empty ledger of valid records was saved (by
\* save_expenses itself or at the end of add_expense), load_expenses on the
\* file, from an empty ledger as a new tracker does it, gives the same
\* records in the same order.
C3_RoundTrip ==
  (/\ alive /\ ret.op \in {"add", "save"} /\ ret.exc = "none" /\ callerChanges = 0
   /\ expenses # << >> /\ AllValid(expenses))
  => /\ load_expenses(file, << >>).ok
     /\ load_expenses(file, << >>).expenses = expenses

\* the categories of a sequence of records in the order of first appearance
RECURSIVE CategoriesInOrder(_)
CategoriesInOrder(s) ==
  IF s = << >> THEN << >>
  ELSE LET front == CategoriesInOrder(SubSeq(s, 1, Len(s) - 1))
           c == s[Len(s)].category
       IN IF \E i \in 1..Len(front) : front[i] = c THEN front ELSE Append(front, c)

\* C4: monthly_summary(month, year) with both given returns the sum of the
\* amounts of exactly the records of that month and year as total, their
\* number as count, and by_category maps exactly their categories to the
\* sums of their amounts, the by_category values summing to total.
C4_MonthlySummary ==
  (alive /\ ret.op = "summary" /\ ret.month.given /\ ret.year.given)
  => LET sel == SelectSeq(expenses, LAMBDA e : e.date.m = ret.month.val
                                               /\ e.date.y = ret.year.val)
         cats == CategoriesInOrder(sel)
         r == ret.summary
     IN /\ r.total = FSum(Amounts(sel))
        /\ r.count = Len(sel)
        /\ DOMAIN r.by_category = {cats[i] : i \in 1..Len(cats)}
        /\ \A c \in DOMAIN r.by_category :
             r.by_category[c] = FSum(Amounts(SelectSeq(sel, LAMBDA e : e.category = c)))
        /\ FSum([i \in 1..Len(cats) |-> r.by_category[cats[i]]]) = r.total

\* a filter is supplied: given and not "All"
ClaimSupplied(f) == f.given /\ ~(f.isText /\ f.text = "All")

\* the record satisfies every supplied filter
ClaimMatches(e, fc, fm, fy) ==
  /\ ClaimSupplied(fc) => (fc.isText /\ e.category = fc.text)
  /\ ClaimSupplied(fm) => (~fm.isText /\ e.date.m = fm.val)
  /\ ClaimSupplied(fy) => (~fy.isText /\ e.date.y = fy.val)

\* C5: for every combination of category, month and year filters, each
\* absent, "All" or a value, view_expenses returns exactly the records that
\* satisfy every supplied filter, each once and in the order of the ledger;
\* with no filter supplied it returns every record in that order.
C5_ViewFilters ==
  [][\A fc \in QCategoryFilters, fm \in QMonthFilters, fy \in QYearFilters :
       ViewCall(fc, fm, fy)
       => /\ HeldItems' = SelectSeq(expenses, LAMBDA e : ClaimMatches(e, fc, fm, fy))
          /\ (~ClaimSupplied(fc) /\ ~ClaimSupplied(fm) /\ ~ClaimSupplied(fy))
               => HeldItems' = expenses]_vars

\* C6: every record of the ledger of a tracker has an amount > 0.
C6_AmountsPositive ==
  alive => \A i \in 1..Len(expenses) : FPositive(expenses[i].amount)

\* the arguments, among those the model draws from, that pass the checks of
\* add_expense
ClaimPassingInputs ==
  UNION {IF AddValid(args.amount, args.category, args.date) THEN {args} ELSE {} :
           args \in ClaimInputs}

\* C7: when the arguments pass the validation and the save fails,
\* add_expense ends with an exception that is neither the ValueError nor
\* silence, and the new record stays at the end of the ledger, where the
\* unfiltered view returns it and the summary of its month counts it.
C7_SaveFailureKeepsRecord ==
  [][\A args \in ClaimPassingInputs, description \in DescriptionInputs,
        how \in SaveOutcomes \ {"ok"} :
       add_expense(args.amount, args.category, args.date, description, how)
       => LET new == ClaimRecord(args.amount, args.category, args.date, description)
              all == ViewItems(expenses', None, None, None)
              m == Some(new.date.m)
              y == Some(new.date.y)
          IN /\ ret'.op = "add" /\ ret'.exc \notin {"none", "ValueError"}
             /\ expenses' = Append(expenses, new)
             /\ all # << >> /\ all[Len(all)] = new
             /\ \A now \in Nows :
                  monthly_summary(expenses', m, y, now).count
                    = monthly_summary(expenses, m, y, now).count + 1]_vars

\* an add_expense call ended with the save's failure and the record is in
\* the ledger
C7_Witness ==
  /\ alive /\ ret.op = "add" /\ ret.exc = "Exception" /\ saveFailures = 1
  /\ expenses # << >> /\ callerChanges = 0
  /\ load_expenses(file, << >>).expenses # expenses

\* the file holds a sequence of objects that each supply amount, category
\* and a date that parses
ClaimWellFormed(f) ==
  /\ f.kind = "json" /\ f.doc.type = "array"
  /\ \A i \in 1..Len(f.doc.items) :
       LET it == f.doc.items[i]
       IN /\ it.type = "dict"
          /\ {"amount", "category", "date"} \subseteq it.keys
          /\ Strptime(it.date).ok

\* C8: constructing a tracker on a file that does not exist gives an empty
\* ledger and no error; on a file whose content is not a sequence of
\* objects with amount, category and a date that parses it fails with the
\* loading error and gives the caller no tracker.
C8_LoadAtConstruction ==
  ret.op = "init"
  => /\ file.kind = "absent" => (alive /\ expenses = << >> /\ ret.exc = "none")
     /\ (file.kind # "absent" /\ ~ClaimWellFormed(file))
          => (~alive /\ ret.exc = "Exception")

\* C9: view_expenses and monthly_summary change neither the ledger nor the
\* file, and the list view_expenses returned is the caller's own: a change
\* the caller makes to it does not change the ledger, and a later
\* add_expense does not change it.
C9_PureReadsFreshList ==
  [][/\ (ViewStep \/ SummaryStep) => UNCHANGED <<expenses, file>>
     /\ CallerClear => UNCHANGED expenses
     /\ (AddStep /\ held.kind # "none") => HeldItems' = HeldItems]_vars

\* C10: while no save has failed, after the constructor and after every
\* add_expense call the file, when it exists, holds the ledger: a tracker
\* constructed on it then has the same records in the same order.
C10_WriteThrough ==
  [][((NewTracker \/ AddStep) /\ alive' /\ saveFailures' = 0 /\ file'.kind # "absent")
      => /\ load_expenses(file', << >>).ok
         /\ load_expenses(file', << >>).expenses = expenses']_vars

====
